---------------------------- MODULE Spec2Model ----------------------------
(***************************************************************************)
(* A model of package.py, the packager that turns the Swift Concurrency   *)
(* Migration Guide repository into a skill directory.                     *)
(*                                                                         *)
(* Text is modelled at character level: a string is a sequence of         *)
(* one-character strings, so that strip, startswith, slicing, replace,    *)
(* splitlines and the TOC regular expression are computed as Python        *)
(* computes them.                                                          *)
(***************************************************************************)
EXTENDS Integers, Sequences, FiniteSets, TLC

VARIABLES
    pc,                \* position of main() (see the actions below)
    config,            \* Configuration: [keep_temp, dry_run]
    repo,              \* the files `git clone` delivered (see Repos)
    temp_dir,          \* GitRepository._temp_dir on disk: "none", "exists", "removed"
    doc_order,         \* SkillGenerator.build: doc_order
    doc_registry,      \* SkillGenerator.doc_registry
    example_registry,  \* SkillGenerator.example_registry
    fs_ops,            \* every operation performed under the output path, in order
    log,               \* the messages logged, in order
    raised,            \* the exception propagating out of the `with` body, or "none"
    exit_status,       \* the process's exit status, -1 while it runs
    unit_in,           \* the argument of the parser function under test
    unit_out           \* its result

vars == <<pc, config, repo, temp_dir, doc_order, doc_registry,
          example_registry, fs_ops, log, raised, exit_status, unit_in, unit_out>>

progVars == <<pc, config, repo, temp_dir, doc_order, doc_registry,
              example_registry, fs_ops, log, raised, exit_status>>

-----------------------------------------------------------------------------
(* Bounds of the model.                                                    *)

MaxTocPieces == 4
MaxMdPieces == 3
MaxExLines == 3
MaxTocRefs == 2

-----------------------------------------------------------------------------
(* Python str primitives on character sequences.                           *)

Whitespace == {" ", "\t", "\n"}

startswith(s, p) == Len(s) >= Len(p) /\ SubSeq(s, 1, Len(p)) = p

\* s[n:]
drop(s, n) == SubSeq(s, n + 1, Len(s))

RECURSIVE lstrip(_)
lstrip(s) ==
    IF s # <<>> /\ Head(s) \in Whitespace THEN lstrip(Tail(s)) ELSE s

RECURSIVE rstrip(_)
rstrip(s) ==
    IF s # <<>> /\ s[Len(s)] \in Whitespace
    THEN rstrip(SubSeq(s, 1, Len(s) - 1)) ELSE s

strip(s) == rstrip(lstrip(s))

\* s.replace(old, new) for one-character old and new
replace(s, old, new) == [i \in 1..Len(s) |-> IF s[i] = old THEN new ELSE s[i]]

RECURSIVE splitlines(_)
splitlines(s) ==
    IF s = <<>> THEN <<>>
    ELSE LET nl == {i \in 1..Len(s) : s[i] = "\n"} IN
         IF nl = {} THEN <<s>>
         ELSE LET k == CHOOSE i \in nl : \A j \in nl : i <= j IN
              <<SubSeq(s, 1, k - 1)>> \o splitlines(drop(s, k))

\* "\n".join(lines) followed by a final newline when the file has lines
RECURSIVE unlines(_)
unlines(lines) ==
    IF lines = <<>> THEN <<>>
    ELSE Head(lines) \o <<"\n">> \o unlines(Tail(lines))

\* Path(name).stem: the name without its last suffix
stem(name) ==
    LET dots == {i \in 2..(Len(name) - 1) : name[i] = "."} IN
    IF dots = {} THEN name
    ELSE SubSeq(name, 1, (CHOOSE i \in dots : \A j \in dots : j <= i) - 1)

-----------------------------------------------------------------------------
(* String literals of the program.                                         *)

Slash2 == <<"/", "/">>
Slash3 == <<"/", "/", "/">>
MarkLabel == <<"M", "A", "R", "K", ":">>
Separator == <<"=", "=", "=">>
BlockOpen == <<"/", "*">>
BlockCont == <<"*">>
DocOpen == <<"<", "d", "o", "c", ":">>
ExamplePrefix ==
    <<"E","x","a","m","p","l","e"," ","c","o","d","e"," ",
      "d","e","m","o","n","s","t","r","a","t","i","n","g"," ">>
NoDescription ==
    <<"N","o"," ","d","e","s","c","r","i","p","t","i","o","n"," ",
      "a","v","a","i","l","a","b","l","e",".">>
DotMd == <<".", "m", "d">>
DotSwift == <<".", "s", "w", "i", "f", "t">>
TocStem == <<"M","i","g","r","a","t","i","o","n","G","u","i","d","e">>

-----------------------------------------------------------------------------
(* sanitize_filename and ContentParser.extract_example_metadata.           *)

sanitize_filename(filename) == replace(filename, "+", "_")

\* the `for line in lines` loop of extract_example_metadata from line i on;
\* the value is `description` when the loop ends
RECURSIVE example_scan(_, _)
example_scan(lines, i) ==
    IF i > Len(lines) THEN <<>>
    ELSE LET stripped == strip(lines[i])
             comment == strip(drop(stripped, 2))
         IN
         IF stripped = <<>> THEN example_scan(lines, i + 1)
         ELSE IF /\ startswith(stripped, Slash2)
                 /\ comment # <<>>
                 /\ ~startswith(comment, MarkLabel)
                 /\ ~startswith(comment, Separator)
              THEN comment
         ELSE IF startswith(stripped, Slash3) THEN strip(drop(stripped, 3))
         ELSE IF ~startswith(stripped, BlockOpen) /\ ~startswith(stripped, BlockCont)
              THEN <<>>
         ELSE example_scan(lines, i + 1)

extract_example_metadata(name, content) ==
    LET scanned == example_scan(splitlines(content), 1)
        description ==
            IF scanned = <<>>
            THEN ExamplePrefix \o replace(replace(stem(name), "_", " "), "+", " ") \o <<".">>
            ELSE scanned
    IN [filename |-> sanitize_filename(name),
        description |-> description,
        path |-> name]


-----------------------------------------------------------------------------
(* ContentParser.extract_metadata.                                         *)

At == <<"@">>
CloseBrace == <<"}">>
HeadingOne == <<"#", " ">>
Hash == <<"#">>
Lt == <<"<">>
Gt == <<">">>

\* The loop state: the locals of extract_metadata.  `stopped` is the `break`;
\* title_line and description_line record which line each value came from.
md_init(name) ==
    [in_metadata_block |-> FALSE, found_title |-> FALSE,
     title |-> stem(name), description |-> <<>>, stopped |-> FALSE,
     title_line |-> 0, description_line |-> 0]

\* a faulty variant of md_step, without the found_title gate: prose before
\* the title is taken as the description
md_step_ungated(st, line, i) ==
    LET stripped == strip(line) IN
    IF startswith(stripped, At) THEN [st EXCEPT !.in_metadata_block = TRUE]
    ELSE IF st.in_metadata_block
         THEN IF stripped = CloseBrace
              THEN [st EXCEPT !.in_metadata_block = FALSE]
              ELSE st
    ELSE IF stripped = <<>> THEN st
    ELSE IF ~st.found_title /\ startswith(stripped, HeadingOne)
         THEN [st EXCEPT !.title = strip(drop(stripped, 2)),
                         !.found_title = TRUE, !.title_line = i]
    ELSE IF \/ startswith(stripped, Hash)
            \/ startswith(stripped, Lt)
            \/ startswith(stripped, Gt)
         THEN st
    ELSE [st EXCEPT !.description = stripped, !.stopped = TRUE,
                    !.description_line = i]

\* one iteration of `for line in lines`, on line number i
md_step(st, line, i) ==
    LET stripped == strip(line) IN
    IF startswith(stripped, At) THEN [st EXCEPT !.in_metadata_block = TRUE]
    ELSE IF st.in_metadata_block
         THEN IF stripped = CloseBrace
              THEN [st EXCEPT !.in_metadata_block = FALSE]
              ELSE st
    ELSE IF stripped = <<>> THEN st
    ELSE IF ~st.found_title
         THEN IF startswith(stripped, HeadingOne)
              THEN [st EXCEPT !.title = strip(drop(stripped, 2)),
                              !.found_title = TRUE, !.title_line = i]
              ELSE st
    ELSE IF \/ startswith(stripped, Hash)
            \/ startswith(stripped, Lt)
            \/ startswith(stripped, Gt)
         THEN st
    ELSE [st EXCEPT !.description = stripped, !.stopped = TRUE,
                    !.description_line = i]

RECURSIVE md_scan(_, _, _)
md_scan(lines, i, st) ==
    IF i > Len(lines) \/ st.stopped THEN st
    ELSE md_scan(lines, i + 1, md_step(st, lines[i], i))

extract_metadata(name, content) ==
    LET st == md_scan(splitlines(content), 1, md_init(name)) IN
    [filename |-> name,
     title |-> st.title,
     description |-> IF st.description = <<>> THEN NoDescription ELSE st.description,
     path |-> name]

-----------------------------------------------------------------------------
(* ContentParser.parse_toc_order: re.findall(r'<doc:([^>]+)>', content).   *)

\* the index of the first ">" at or after i, or 0
find_gt(text, i) ==
    LET gts == {k \in i..Len(text) : text[k] = ">"} IN
    IF gts = {} THEN 0 ELSE CHOOSE k \in gts : \A j \in gts : k <= j

\* the matches found scanning from position i: at each position the literal
\* "<doc:", then the longest run of non-">" characters (at least one), then ">";
\* the scan resumes after a match and one character further on otherwise
RECURSIVE findall_doc(_, _)
findall_doc(text, i) ==
    IF i > Len(text) THEN <<>>
    ELSE LET e == find_gt(text, i + Len(DocOpen)) IN
         IF startswith(drop(text, i - 1), DocOpen) /\ e > i + Len(DocOpen)
         THEN <<SubSeq(text, i + Len(DocOpen), e - 1)>> \o findall_doc(text, e + 1)
         ELSE findall_doc(text, i + 1)

\* a faulty variant of parse_toc_order: each token is kept once, at its first
\* occurrence
RECURSIVE unique(_)
unique(ts) ==
    IF ts = <<>> THEN <<>>
    ELSE LET front == unique(SubSeq(ts, 1, Len(ts) - 1))
             last == ts[Len(ts)]
         IN IF \E i \in 1..Len(front) : front[i] = last THEN front
            ELSE Append(front, last)

parse_toc_order_unique(content) == unique(findall_doc(content, 1))

parse_toc_order(content) == findall_doc(content, 1)


-----------------------------------------------------------------------------
(* Inputs of the parser functions, drawn from bounded sets.                *)

SeqsUpTo(S, n) == UNION {[1..k -> S] : k \in 0..n}

RECURSIVE flatten(_)
flatten(ss) == IF ss = <<>> THEN <<>> ELSE Head(ss) \o flatten(Tail(ss))

NotRun == [run |-> FALSE]
NoInput == [fn |-> "none"]

\* lines of Swift example files
ExDocLine == <<"/", "/", "/", " ", "D", ".">>
ExDocBare == <<"/", "/", "/">>
ExMarkLine == <<"/", "/", " ", "M", "A", "R", "K", ":", " ", "-">>
ExSepLine == <<"/", "/", " ", "=", "=", "=">>
ExEmptyComment == <<"/", "/">>
ExCommentLine == <<" ", "/", "/", " ", "c", " ">>
ExBlankLine == <<>>
ExCodeLine == <<"l", "e", "t">>
ExBlockLine == <<"/", "*", " ", "b">>
ExStarLine == <<" ", "*", " ", "s">>

ExLines == {ExDocLine, ExDocBare, ExMarkLine, ExSepLine, ExEmptyComment,
            ExCommentLine, ExBlankLine, ExCodeLine, ExBlockLine, ExStarLine}

NamePlus == <<"a", "+", "b">> \o DotSwift
NameUnder == <<"a", "_", "b">> \o DotSwift
ExNames == {NamePlus, NameUnder}

ExInputs ==
    {[fn |-> "example", name |-> n, content |-> unlines(ls)] :
        n \in ExNames, ls \in SeqsUpTo(ExLines, MaxExLines)}

\* pieces of markdown files: single lines and whole metadata blocks
MdTitle == <<"#", " ", "T">>
MdTitleWide == <<" ", "#", " ", " ", "U", " ">>
MdSubHeading == <<"#", "#", " ", "S">>
MdBlank == <<" ">>
MdProse == <<" ", "p", " ">>
MdLink == <<"<", "x">>
MdQuote == <<">", " ", "q">>
MdDirective == <<"@", "D">>
MdOpenOuter == <<"@", "M", " ", "{">>
MdOpenInner == <<" ", "@", "I", " ", "{">>
MdField == <<"f">>
MdInnerHeading == <<"#", " ", "H">>

MdFlatBlock == <<MdOpenOuter, MdField, <<>>, MdInnerHeading, CloseBrace>>
MdNestedBlock == <<MdOpenOuter, MdOpenInner, CloseBrace, MdField, CloseBrace>>
MdNestedBare == <<MdOpenOuter, MdOpenInner, CloseBrace, CloseBrace>>

MdPieces ==
    {<<MdTitle>>, <<MdTitleWide>>, <<MdSubHeading>>, <<MdBlank>>, <<MdProse>>,
     <<MdLink>>, <<MdQuote>>, <<MdDirective>>, <<CloseBrace>>,
     MdFlatBlock, MdNestedBlock, MdNestedBare}

NameA == <<"A">> \o DotMd
NameB == <<"B">> \o DotMd
TocName == TocStem \o DotMd

MdInputs ==
    {[fn |-> "markdown", name |-> NameA, content |-> unlines(flatten(ps))] :
        ps \in SeqsUpTo(MdPieces, MaxMdPieces)}

-----------------------------------------------------------------------------
(* The parser functions applied to those inputs.                           *)

UnitIdle ==
    /\ pc = "unit"
    /\ config = [keep_temp |-> FALSE, dry_run |-> TRUE]
    /\ repo = [cloned |-> FALSE]
    /\ temp_dir = "none"
    /\ doc_order = <<>>
    /\ doc_registry = <<>>
    /\ example_registry = <<>>
    /\ fs_ops = <<>>
    /\ log = <<>>
    /\ raised = "none"
    /\ exit_status = -1

InitEx == UnitIdle /\ unit_in \in ExInputs /\ unit_out = NotRun

RunExtractExample ==
    /\ unit_in.fn = "example"
    /\ unit_out = NotRun
    /\ unit_out' = [run |-> TRUE,
                    meta |-> extract_example_metadata(unit_in.name, unit_in.content)]
    /\ UNCHANGED <<progVars, unit_in>>

SpecEx == InitEx /\ [][RunExtractExample]_vars

InitMd == UnitIdle /\ unit_in \in MdInputs /\ unit_out = NotRun

RunExtractMetadata ==
    /\ unit_in.fn = "markdown"
    /\ unit_out = NotRun
    /\ LET st == md_scan(splitlines(unit_in.content), 1, md_init(unit_in.name)) IN
       unit_out' = [run |-> TRUE,
                    meta |-> extract_metadata(unit_in.name, unit_in.content),
                    title_line |-> st.title_line,
                    description_line |-> st.description_line]
    /\ UNCHANGED <<progVars, unit_in>>

SpecMd == InitMd /\ [][RunExtractMetadata]_vars


-----------------------------------------------------------------------------
(* The files of a cloned repository, and their fixed contents.             *)

endswith(s, p) == Len(s) >= Len(p) /\ SubSeq(s, Len(s) - Len(p) + 1, Len(s)) = p

\* the text of a file of the clone, by name
file_text(name) ==
    IF name = NameA THEN unlines(<<MdTitle, MdLink, MdProse>>)
    ELSE IF name = NameB THEN unlines(MdNestedBare \o <<MdTitleWide>>)
    ELSE IF name = NamePlus THEN unlines(<<ExMarkLine, ExCommentLine>>)
    ELSE IF name = NameUnder THEN unlines(<<ExBlankLine, ExCommentLine>>)
    ELSE <<>>

-----------------------------------------------------------------------------
(* SkillGenerator._process_docs.                                           *)

\* a faulty variant of copy_ops: the copy is made in a dry run too
copy_ops_always(dry_run, dir, filename) ==
    <<[op |-> "mkdir", dest |-> <<dir>>], [op |-> "copy", dest |-> <<dir, filename>>]>>

\* what one record's copy does under the output path
copy_ops(dry_run, dir, filename) ==
    IF ~dry_run
    THEN <<[op |-> "mkdir", dest |-> <<dir>>], [op |-> "copy", dest |-> <<dir, filename>>]>>
    ELSE <<>>

\* guide_root.glob("*.md") without the TOC file, keyed by stem
file_map(guide) ==
    LET mds == {f \in guide : endswith(f, DotMd) /\ f # TocName} IN
    [k \in {stem(f) : f \in mds} |-> CHOOSE f \in mds : stem(f) = k]

\* the loop `for doc_name in doc_order` from index i on; acc holds
\* doc_registry and the copies made so far
RECURSIVE docs_loop(_, _, _, _, _)
docs_loop(order, i, fmap, dry_run, acc) ==
    IF i > Len(order) THEN acc
    ELSE IF order[i] \notin DOMAIN fmap THEN docs_loop(order, i + 1, fmap, dry_run, acc)
    ELSE LET source_path == fmap[order[i]]
             metadata == extract_metadata(source_path, file_text(source_path))
         IN docs_loop(order, i + 1, fmap, dry_run,
                      [registry |-> Append(acc.registry, metadata),
                       ops |-> acc.ops \o copy_ops(dry_run, "Guide", source_path)])

\* a faulty variant of docs_error: an empty registry is accepted
docs_error_never(registry) == "none"

\* the check that ends _process_docs
docs_error(registry) == IF registry = <<>> THEN "NoDocs" ELSE "none"

process_docs(order, guide, dry_run) ==
    LET done == docs_loop(order, 1, file_map(guide), dry_run,
                          [registry |-> <<>>, ops |-> <<>>])
    IN [registry |-> done.registry, ops |-> done.ops,
        error |-> docs_error(done.registry)]

-----------------------------------------------------------------------------
(* ContentParser.get_example_files and SkillGenerator._process_examples.   *)

\* code points of the characters of example file names
Ord(c) ==
    CASE c = "+" -> 43 [] c = "." -> 46 [] c = "_" -> 95 [] c = "a" -> 97
      [] c = "b" -> 98 [] c = "f" -> 102 [] c = "i" -> 105 [] c = "s" -> 115
      [] c = "t" -> 116 [] c = "w" -> 119 [] OTHER -> 0

RECURSIVE less(_, _)
less(a, b) ==
    IF b = <<>> THEN FALSE
    ELSE IF a = <<>> THEN TRUE
    ELSE IF Head(a) = Head(b) THEN less(Tail(a), Tail(b))
    ELSE Ord(Head(a)) < Ord(Head(b))

RECURSIVE sorted(_)
sorted(S) ==
    IF S = {} THEN <<>>
    ELSE LET m == CHOOSE x \in S : \A y \in S \ {x} : less(x, y) IN
         <<m>> \o sorted(S \ {m})

get_example_files(r) ==
    IF ~r.examples_root THEN <<>>
    ELSE sorted({f \in r.examples : endswith(f, DotSwift)})

RECURSIVE examples_loop(_, _, _, _)
examples_loop(files, i, dry_run, acc) ==
    IF i > Len(files) THEN acc
    ELSE LET metadata == extract_example_metadata(files[i], file_text(files[i])) IN
         examples_loop(files, i + 1, dry_run,
                       [registry |-> Append(acc.registry, metadata),
                        ops |-> acc.ops \o copy_ops(dry_run, "Examples", metadata.filename)])

process_examples(r, dry_run) ==
    examples_loop(get_example_files(r), 1, dry_run, [registry |-> <<>>, ops |-> <<>>])

-----------------------------------------------------------------------------
(* GitRepository._cleanup.                                                 *)

cleanup(keep_temp, dir) ==
    IF keep_temp THEN dir
    ELSE IF dir = "exists" THEN "removed" ELSE dir

cleanup_log(keep_temp) == IF keep_temp THEN <<"Temp directory retained">> ELSE <<>>

-----------------------------------------------------------------------------
(* The repositories a clone may deliver.                                   *)

RefA == DocOpen \o <<"A">> \o Gt
RefB == DocOpen \o <<"B">> \o Gt
RefToc == DocOpen \o TocStem \o Gt

\* a TOC file listing references, one `- <doc:X>` item per line
toc_of(refs) == flatten([i \in 1..Len(refs) |-> <<"-", " ">> \o refs[i] \o <<"\n">>])

TocTexts == {toc_of(refs) : refs \in SeqsUpTo({RefA, RefB, RefToc}, MaxTocRefs)}

LicenseNames == <<"LICENSE.txt", "LICENSE.md", "LICENSE">>

Repos ==
    {[cloned |-> TRUE, toc_exists |-> TRUE, toc |-> t, guide |-> g \cup {TocName},
      examples_root |-> TRUE, examples |-> e, licenses |-> l] :
        t \in TocTexts, g \in SUBSET {NameA, NameB},
        e \in SUBSET ExNames, l \in SUBSET {"LICENSE.txt", "LICENSE.md", "LICENSE"}}
    \cup
    {[cloned |-> TRUE, toc_exists |-> FALSE, toc |-> <<>>, guide |-> g,
      examples_root |-> FALSE, examples |-> {}, licenses |-> l] :
        g \in SUBSET {NameA}, l \in {{}, {"LICENSE"}}}

-----------------------------------------------------------------------------
(* main(): the clone, the build and the cleanup.                           *)

Init ==
    /\ pc = "main"
    /\ config \in [keep_temp : BOOLEAN, dry_run : BOOLEAN]
    /\ repo = [cloned |-> FALSE]
    /\ temp_dir = "none"
    /\ doc_order = <<>>
    /\ doc_registry = <<>>
    /\ example_registry = <<>>
    /\ fs_ops = <<>>
    /\ log = <<>>
    /\ raised = "none"
    /\ exit_status = -1
    /\ unit_in = NoInput
    /\ unit_out = NotRun

unitVars == <<unit_in, unit_out>>

\* GitRepository.__enter__, _clone up to the blocking subprocess.run
EnterClone ==
    /\ pc = "main"
    /\ temp_dir' = "exists"
    /\ log' = Append(log, "Cloning repository")
    /\ pc' = "clone"
    /\ UNCHANGED <<config, repo, doc_order, doc_registry, example_registry,
                   fs_ops, raised, exit_status, unitVars>>

\* git clone succeeds: __enter__ returns and SkillGenerator is constructed
CloneSucceeds ==
    /\ pc = "clone"
    /\ repo' \in Repos
    /\ log' = Append(log, "Repository cloned successfully")
    /\ pc' = "parse_toc"
    /\ UNCHANGED <<config, temp_dir, doc_order, doc_registry, example_registry,
                   fs_ops, raised, exit_status, unitVars>>

\* subprocess.run raises CalledProcessError or FileNotFoundError: _clone cleans
\* up and raises RuntimeError, which main() reports
CloneFails ==
    /\ pc = "clone"
    /\ \E e \in {"CalledProcessError", "FileNotFoundError"} :
          log' = log
                 \o (IF e = "CalledProcessError" THEN <<"Git clone failed">> ELSE <<>>)
                 \o cleanup_log(config.keep_temp)
                 \o (IF e = "CalledProcessError"
                     THEN <<"Fatal error: Failed to clone repository">>
                     ELSE <<"Fatal error: Git command not found">>)
    /\ temp_dir' = cleanup(config.keep_temp, temp_dir)
    /\ exit_status' = 1
    /\ pc' = "exited"
    /\ UNCHANGED <<config, repo, doc_order, doc_registry, example_registry,
                   fs_ops, raised, unitVars>>

\* build, step 1: parse_toc_order
ParseTocOrder ==
    /\ pc = "parse_toc"
    /\ IF repo.toc_exists
       THEN /\ doc_order' = parse_toc_order(repo.toc)
            /\ pc' = "prepare"
            /\ UNCHANGED raised
       ELSE /\ raised' = "TOC file not found"
            /\ pc' = "with_exit"
            /\ UNCHANGED doc_order
    /\ UNCHANGED <<config, repo, temp_dir, doc_registry, example_registry,
                   fs_ops, log, exit_status, unitVars>>

\* build, step 2: _prepare_directory unless dry_run
PrepareDirectory ==
    /\ pc = "prepare"
    /\ IF config.dry_run
       THEN UNCHANGED fs_ops
       ELSE \E output_exists \in BOOLEAN :
               fs_ops' = fs_ops
                         \o (IF output_exists
                             THEN <<[op |-> "rmtree", dest |-> <<>>]>> ELSE <<>>)
                         \o <<[op |-> "mkdir", dest |-> <<>>]>>
    /\ pc' = "process_docs"
    /\ UNCHANGED <<config, repo, temp_dir, doc_order, doc_registry,
                   example_registry, log, raised, exit_status, unitVars>>

\* build, step 3: _process_docs
ProcessDocs ==
    /\ pc = "process_docs"
    /\ LET r == process_docs(doc_order, repo.guide, config.dry_run) IN
       /\ doc_registry' = doc_registry \o r.registry
       /\ fs_ops' = fs_ops \o r.ops
       /\ IF r.error # "none"
          THEN /\ raised' = "No documentation files found"
               /\ pc' = "with_exit"
               /\ UNCHANGED log
          ELSE /\ log' = Append(log, "Processed documentation files")
               /\ pc' = "process_examples"
               /\ UNCHANGED raised
    /\ UNCHANGED <<config, repo, temp_dir, doc_order, example_registry,
                   exit_status, unitVars>>

\* build, step 3: _process_examples
ProcessExamples ==
    /\ pc = "process_examples"
    /\ IF get_example_files(repo) = <<>>
       THEN /\ log' = Append(log, "No example files found")
            /\ UNCHANGED <<example_registry, fs_ops>>
       ELSE LET r == process_examples(repo, config.dry_run) IN
            /\ example_registry' = example_registry \o r.registry
            /\ fs_ops' = fs_ops \o r.ops
            /\ log' = Append(log, "Processed example files")
    /\ pc' = "copy_license"
    /\ UNCHANGED <<config, repo, temp_dir, doc_order, doc_registry, raised,
                   exit_status, unitVars>>

\* the first of LICENSE.txt, LICENSE.md, LICENSE that exists, or "" for none
first_license(licenses) ==
    LET found == {i \in 1..Len(LicenseNames) : LicenseNames[i] \in licenses} IN
    IF found = {} THEN ""
    ELSE LicenseNames[CHOOSE i \in found : \A j \in found : i <= j]

\* build: _copy_license unless dry_run
CopyLicense ==
    /\ pc = "copy_license"
    /\ IF config.dry_run
       THEN /\ pc' = "generate_skill_md"
            /\ UNCHANGED <<fs_ops, log, raised>>
       ELSE IF first_license(repo.licenses) # ""
       THEN /\ fs_ops' = Append(fs_ops, [op |-> "copy",
                                         dest |-> <<first_license(repo.licenses)>>])
            /\ log' = Append(log, "Included license")
            /\ pc' = "generate_skill_md"
            /\ UNCHANGED raised
       ELSE /\ raised' = "No license file found"
            /\ pc' = "with_exit"
            /\ UNCHANGED <<fs_ops, log>>
    /\ UNCHANGED <<config, repo, temp_dir, doc_order, doc_registry,
                   example_registry, exit_status, unitVars>>

\* build, step 4: _generate_skill_md unless dry_run
GenerateSkillMd ==
    /\ pc = "generate_skill_md"
    /\ fs_ops' = IF config.dry_run THEN fs_ops
                 ELSE Append(fs_ops, [op |-> "write", dest |-> <<"SKILL.md">>])
    /\ pc' = "create_zip"
    /\ UNCHANGED <<config, repo, temp_dir, doc_order, doc_registry,
                   example_registry, log, raised, exit_status, unitVars>>

\* build, step 5: _create_zip_archive unless dry_run, then "Packaging complete"
CreateZipArchive ==
    /\ pc = "create_zip"
    /\ IF config.dry_run
       THEN /\ log' = Append(log, "Packaging complete")
            /\ UNCHANGED fs_ops
       ELSE /\ fs_ops' = Append(fs_ops, [op |-> "zip", dest |-> <<".zip">>])
            /\ log' = log \o <<"Archive created", "Packaging complete">>
    /\ pc' = "with_exit"
    /\ UNCHANGED <<config, repo, temp_dir, doc_order, doc_registry,
                   example_registry, raised, exit_status, unitVars>>

\* GitRepository.__exit__ (_cleanup), then what main() does with the outcome:
\* a normal return, `except Exception` (exit status 1), or SystemExit
ExitContext ==
    /\ pc = "with_exit"
    /\ temp_dir' = cleanup(config.keep_temp, temp_dir)
    /\ log' = log \o cleanup_log(config.keep_temp)
                  \o (IF raised \in {"none", "SystemExit"} THEN <<>>
                      ELSE <<"Fatal error: " \o raised>>)
    /\ exit_status' = IF raised \in {"none", "SystemExit"} THEN 0 ELSE 1
    /\ pc' = "exited"
    /\ UNCHANGED <<config, repo, doc_order, doc_registry, example_registry,
                   fs_ops, raised, unitVars>>

BodyPcs == {"parse_toc", "prepare", "process_docs", "process_examples",
            "copy_license", "generate_skill_md", "create_zip"}

\* SIGINT: signal_handler calls sys.exit(0), raising SystemExit where main()
\* stands.  Inside the `with` body __exit__ runs next; inside __enter__ or
\* __exit__ nothing catches it, and the process exits as it is.
Interrupt ==
    /\ pc \in {"main", "clone", "with_exit"} \cup BodyPcs
    /\ log' = Append(log, "Operation cancelled by user.")
    /\ IF pc \in BodyPcs
       THEN /\ raised' = "SystemExit"
            /\ pc' = "with_exit"
            /\ UNCHANGED <<temp_dir, exit_status>>
       ELSE /\ exit_status' = 0
            /\ pc' = "exited"
            /\ temp_dir' \in IF pc = "with_exit"
                             THEN {temp_dir, cleanup(config.keep_temp, temp_dir)}
                             ELSE {temp_dir}
            /\ UNCHANGED raised
    /\ UNCHANGED <<config, repo, doc_order, doc_registry, example_registry,
                   fs_ops, unitVars>>

Next ==
    \/ EnterClone
    \/ CloneSucceeds
    \/ CloneFails
    \/ ParseTocOrder
    \/ PrepareDirectory
    \/ ProcessDocs
    \/ ProcessExamples
    \/ CopyLicense
    \/ GenerateSkillMd
    \/ CreateZipArchive
    \/ ExitContext
    \/ Interrupt

Spec == Init /\ [][Next]_vars

-----------------------------------------------------------------------------
(* parse_toc_order and _process_docs applied to bounded TOC texts.         *)

TocPieces == {RefA, RefB, DocOpen, Gt, <<"A">>, <<" ">>}

ExampleToc == RefA \o <<" ">> \o RefB \o <<" ">> \o RefA
TocWithSelf == RefToc \o <<"\n">> \o RefA

TocInputs ==
    {[fn |-> "toc", content |-> t, guide |-> g \cup {TocName}] :
        t \in {flatten(ps) : ps \in SeqsUpTo(TocPieces, MaxTocPieces)}
                \cup {ExampleToc, TocWithSelf},
        g \in SUBSET {NameA, NameB}}

InitToc == UnitIdle /\ unit_in \in TocInputs /\ unit_out = NotRun

RunParseToc ==
    /\ unit_in.fn = "toc"
    /\ unit_out = NotRun
    /\ unit_out' = [run |-> TRUE, processed |-> FALSE,
                    doc_order |-> parse_toc_order(unit_in.content)]
    /\ UNCHANGED <<progVars, unit_in>>

RunProcessDocs ==
    /\ unit_in.fn = "toc"
    /\ unit_out.run
    /\ ~unit_out.processed
    /\ LET r == process_docs(unit_out.doc_order, unit_in.guide, config.dry_run) IN
       unit_out' = [run |-> TRUE, processed |-> TRUE,
                    doc_order |-> unit_out.doc_order,
                    registry |-> r.registry, error |-> r.error]
    /\ UNCHANGED <<progVars, unit_in>>

SpecToc == InitToc /\ [][RunParseToc \/ RunProcessDocs]_vars

-----------------------------------------------------------------------------
(* Properties of extract_example_metadata (SpecEx).                        *)

Min(S) == CHOOSE x \in S : \A y \in S : x <= y

\* the first line at or after `from` that is not blank, or 0
FirstNonBlank(lines, from) ==
    LET nb == {i \in from..Len(lines) : strip(lines[i]) # <<>>} IN
    IF nb = {} THEN 0 ELSE Min(nb)

IsDocComment(line) == startswith(strip(line), Slash3)

IsLineComment(line) == startswith(strip(line), Slash2) /\ ~IsDocComment(line)

CommentText(line) == strip(drop(strip(line), 2))

Rejected(line) ==
    /\ IsLineComment(line)
    /\ \/ CommentText(line) = <<>>
       \/ startswith(CommentText(line), MarkLabel)
       \/ startswith(CommentText(line), Separator)

Accepted(line) == IsLineComment(line) /\ ~Rejected(line)

\* C2: when the first non-blank line of an example file begins with `///`,
\* the description is the rest of that line after the three slashes, trimmed.
C2_DocCommentDescription ==
    unit_out.run =>
        LET lines == splitlines(unit_in.content)
            f == FirstNonBlank(lines, 1)
        IN (f > 0 /\ IsDocComment(lines[f]) /\ strip(drop(strip(lines[f]), 3)) # <<>>)
             => unit_out.meta.description = strip(drop(strip(lines[f]), 3))

\* C3: a rejected `//` line (empty, MARK: or ===) does not end the scan: when
\* the next non-blank line is an acceptable `//` comment, that comment is the
\* description.
C3_RejectedCommentContinues ==
    unit_out.run =>
        LET lines == splitlines(unit_in.content)
            f == FirstNonBlank(lines, 1)
            g == IF f = 0 THEN 0 ELSE FirstNonBlank(lines, f + 1)
        IN (f > 0 /\ g > 0 /\ Rejected(lines[f]) /\ Accepted(lines[g]))
             => unit_out.meta.description = CommentText(lines[g])

-----------------------------------------------------------------------------
(* Properties of extract_metadata (SpecMd).                                *)

\* the lines of the input file, each trimmed
TrimmedLines ==
    LET lines == splitlines(unit_in.content) IN
    [i \in 1..Len(lines) |-> strip(lines[i])]

OpensBlock(t, i) == startswith(t[i], At)

\* Line i of t lies in a metadata block as the specification describes it: it
\* starts with `@`, or an earlier `@` line has no line `}` between it and i.
InBlock(t, i) ==
    \/ OpensBlock(t, i)
    \/ \E j \in 1..(i - 1) :
          OpensBlock(t, j) /\ \A k \in (j + 1)..(i - 1) : t[k] # CloseBrace

TitleLines(t) ==
    {i \in 1..Len(t) : ~InBlock(t, i) /\ startswith(t[i], HeadingOne)}

DescriptionLines(t) ==
    IF TitleLines(t) = {} THEN {}
    ELSE {i \in (Min(TitleLines(t)) + 1)..Len(t) :
            /\ ~InBlock(t, i)
            /\ t[i] # <<>>
            /\ Head(t[i]) \notin {"#", "<", ">"}}

RECURSIVE Depths(_)
Depths(t) ==
    IF t = <<>> THEN <<0>>
    ELSE LET before == Depths(SubSeq(t, 1, Len(t) - 1))
             d == before[Len(before)]
             l == t[Len(t)]
         IN Append(before,
                   IF startswith(l, At)
                   THEN IF d = 0 \/ l[Len(l)] = "{" THEN d + 1 ELSE d
                   ELSE IF l = CloseBrace /\ d > 0 THEN d - 1 ELSE d)

\* C5: in a file whose metadata blocks (nested blocks with their own `}` lines
\* included) are all closed and stand before the first prose line, neither the
\* title nor the description is a line of a block.
C5_BlockNeverReturned ==
    unit_out.run =>
        LET t == TrimmedLines
            depth == Depths(t)
            \* line i is part of a block, its closing `}` included
            InNestedBlock(i) == depth[i] > 0 \/ OpensBlock(t, i)
            \* the non-blank lines outside every block that are not headings
            prose == {i \in 1..Len(t) :
                        ~InNestedBlock(i) /\ t[i] # <<>> /\ Head(t[i]) # "#"}
        IN
        (/\ depth[Len(t) + 1] = 0
         /\ \E i \in 1..Len(t) : OpensBlock(t, i)
         /\ \A i \in 1..Len(t) : \A j \in prose : InNestedBlock(i) => i < j)
        => /\ unit_out.title_line # 0 => ~InNestedBlock(unit_out.title_line)
           /\ unit_out.description_line # 0
                 => ~InNestedBlock(unit_out.description_line)

-----------------------------------------------------------------------------
(* Properties of parse_toc_order and the document registry (SpecToc).      *)

TocIn == unit_in.content

\* `<doc:TOKEN>` stands at s..e: the marker, a non-empty run without ">", ">"
IsRef(s, e) ==
    /\ s >= 1
    /\ e <= Len(TocIn)
    /\ e > s + Len(DocOpen)
    /\ SubSeq(TocIn, s, s + Len(DocOpen) - 1) = DocOpen
    /\ TocIn[e] = ">"
    /\ \A k \in (s + Len(DocOpen))..(e - 1) : TocIn[k] # ">"

RefEnds == {e \in 1..Len(TocIn) : \E s \in 1..e : IsRef(s, e)}

\* the token of the leftmost reference ending at e
TokenAt(e) ==
    LET s == Min({x \in 1..e : IsRef(x, e)}) IN
    SubSeq(TocIn, s + Len(DocOpen), e - 1)

\* the tokens in order of appearance
TokensInOrder ==
    [k \in 1..Cardinality(RefEnds) |->
        TokenAt(CHOOSE e \in RefEnds : Cardinality({x \in RefEnds : x < e}) = k - 1)]

\* the token names a markdown file of the guide root other than the TOC file
Resolves(t) ==
    \E f \in unit_in.guide : f # TocName /\ endswith(f, DotMd) /\ stem(f) = t

RECURSIVE Restrict(_)
Restrict(ts) ==
    IF ts = <<>> THEN <<>>
    ELSE IF Resolves(Head(ts)) THEN <<Head(ts)>> \o Restrict(Tail(ts))
    ELSE Restrict(Tail(ts))

\* C8: parse_toc_order returns the `<doc:TOKEN>` tokens left to right with
\* duplicates kept, and the document registry is that sequence restricted to
\* the tokens naming a markdown file of the guide root other than the TOC
\* file, in the same order; dropping a token raises nothing.
C8_TocOrderAndRegistry ==
    /\ unit_out.run =>
          /\ unit_out.doc_order = TokensInOrder
          /\ TocIn = ExampleToc => unit_out.doc_order = <<<<"A">>, <<"B">>, <<"A">>>>
    /\ (unit_out.run /\ unit_out.processed) =>
          LET kept == Restrict(unit_out.doc_order) IN
          /\ Len(unit_out.registry) = Len(kept)
          /\ \A i \in 1..Len(kept) :
                /\ unit_out.registry[i].filename = kept[i] \o DotMd
                /\ unit_out.registry[i].path = kept[i] \o DotMd
          /\ kept # <<>> => unit_out.error = "none"

\* the example TOC with B.md missing: [A, B, A] is parsed, B is dropped and A
\* is registered twice
C8_Witness ==
    /\ unit_out.run
    /\ unit_out.processed
    /\ TocIn = ExampleToc
    /\ unit_in.guide = {NameA, TocName}
    /\ Len(unit_out.registry) = 2
    /\ unit_out.error = "none"

-----------------------------------------------------------------------------
(* Properties of a whole run (Spec).                                       *)

Logged(m) == \E i \in 1..Len(log) : log[i] = m

Copies(dir) == {i \in 1..Len(fs_ops) : fs_ops[i].op = "copy" /\ Head(fs_ops[i].dest) = dir}

\* C1: with keep-temp off the temporary directory, once created, is removed
\* before the process exits, on every exit path; with keep-temp on it is kept.
C1_TempDirCleanedUp ==
    pc = "exited" =>
        /\ ~config.keep_temp => temp_dir # "exists"
        /\ config.keep_temp => temp_dir # "removed"

\* C4: no two records of the document registry share a filename, no two
\* records of the example registry share a filename, and no copy destination
\* is written twice.
C4_UniqueFilenames ==
    /\ \A i, j \in 1..Len(doc_registry) :
          doc_registry[i].filename = doc_registry[j].filename => i = j
    /\ \A i, j \in 1..Len(example_registry) :
          example_registry[i].filename = example_registry[j].filename => i = j
    /\ \A i, j \in Copies("Guide") \cup Copies("Examples") :
          fs_ops[i].dest = fs_ops[j].dest => i = j


\* the stems of the markdown files of the guide root other than the TOC file
RepoStems ==
    {stem(f) : f \in {g \in repo.guide : endswith(g, DotMd) /\ g # TocName}}

RECURSIVE KeepResolved(_)
KeepResolved(ts) ==
    IF ts = <<>> THEN <<>>
    ELSE IF Head(ts) \in RepoStems THEN <<Head(ts)>> \o KeepResolved(Tail(ts))
    ELSE KeepResolved(Tail(ts))

\* the TOC references that name a file, in TOC order
RepoKept == IF repo.cloned /\ repo.toc_exists THEN KeepResolved(doc_order) ELSE <<>>

SwiftFiles ==
    IF repo.cloned /\ repo.examples_root
    THEN {f \in repo.examples : endswith(f, DotSwift)} ELSE {}

DocsDone ==
    Logged("Processed documentation files") \/ raised = "No documentation files found"

ExamplesDone == Logged("Processed example files") \/ Logged("No example files found")

\* C7: the registries a build ends with are determined by the repository
\* contents alone, the same in a dry run and a real run, and a dry run
\* performs no operation under the output path.
C7_DryRunSameRegistriesNoWrites ==
    /\ config.dry_run => fs_ops = <<>>
    /\ DocsDone =>
          /\ Len(doc_registry) = Len(RepoKept)
          /\ \A i \in 1..Len(RepoKept) :
                doc_registry[i] =
                    extract_metadata(RepoKept[i] \o DotMd, file_text(RepoKept[i] \o DotMd))
    /\ ~DocsDone => doc_registry = <<>>
    /\ ExamplesDone =>
          /\ Len(example_registry) = Cardinality(SwiftFiles)
          /\ \A i \in 1..Len(example_registry) :
                /\ example_registry[i].path \in SwiftFiles
                /\ example_registry[i] =
                      extract_example_metadata(example_registry[i].path,
                                               file_text(example_registry[i].path))
                /\ \A j \in 1..(i - 1) :
                      less(example_registry[j].path, example_registry[i].path)
    /\ ~ExamplesDone => example_registry = <<>>

\* a dry run that reached "Packaging complete" with both registries filled
C7_Witness ==
    /\ config.dry_run
    /\ pc = "exited"
    /\ Logged("Packaging complete")
    /\ Len(doc_registry) >= 2
    /\ Len(example_registry) >= 2
    /\ fs_ops = <<>>

LateOps ==
    {i \in 1..Len(fs_ops) :
        \/ fs_ops[i].op \in {"write", "zip"}
        \/ fs_ops[i].op = "copy" /\ Len(fs_ops[i].dest) = 1}

\* C9: a build never goes on with an empty document registry: when no TOC
\* token resolves it ends with the fatal "No documentation files found" (exit
\* status 1), not the missing-TOC error, and no license copy, index or
\* archive is written; an empty example registry only logs a warning and the
\* build goes on.
C9_EmptyDocsFatalEmptyExamplesNot ==
    /\ pc \in {"process_examples", "copy_license", "generate_skill_md", "create_zip"}
          => doc_registry # <<>> /\ raised = "none"
    /\ Logged("Packaging complete") => doc_registry # <<>>
    /\ (DocsDone /\ RepoKept = <<>>) =>
          /\ raised = "No documentation files found"
          /\ pc \in {"with_exit", "exited"}
          /\ LateOps = {}
          /\ (pc = "exited" /\ ~Logged("Operation cancelled by user.")) =>
                /\ exit_status = 1
                /\ Logged("Fatal error: No documentation files found")
                /\ ~Logged("Fatal error: TOC file not found")
    /\ (pc = "copy_license" /\ SwiftFiles = {}) =>
          /\ example_registry = <<>>
          /\ Logged("No example files found")
          /\ raised = "none"

\* a real build that ended with the no-documents error after the TOC was read
C9_Witness ==
    /\ pc = "exited"
    /\ repo.cloned
    /\ repo.toc_exists
    /\ doc_order # <<>>
    /\ ~config.dry_run
    /\ exit_status = 1
    /\ Logged("Fatal error: No documentation files found")

\* C10: when none of LICENSE.txt, LICENSE.md, LICENSE exists in the clone, the
\* build fails with exit status 1 in every run mode, dry run included, and
\* never reaches "Packaging complete".
C10_MissingLicenseFatal ==
    (repo.cloned /\ first_license(repo.licenses) = "") =>
        /\ ~Logged("Packaging complete")
        /\ (pc = "exited" /\ ~Logged("Operation cancelled by user.")) => exit_status = 1

=============================================================================
